---- MODULE Spec2Model ----
(***************************************************************************)
(* btrfs-snapshot-backup-manager: the rotation pass of btrfs-sbm.py (take, *)
(* classify, prune, save), the --create-config command that fills the      *)
(* registry, and Subvolume.delete_snapshot of sbmBTRFS/btrfs_control.py.   *)
(*                                                                         *)
(* Time is counted in minutes since 2021-01-01T00:00 (a Friday).  A        *)
(* datetime object is such a count; the text datetime.isoformat() writes   *)
(* is the tuple <<year, month, day, hour, minute>>, compared the way       *)
(* Python compares the strings: field by field from the left.              *)
(***************************************************************************)
EXTENDS Integers, Sequences, FiniteSets, TLC

VARIABLES
    testing,      \* the module flag `testing`: print the btrfs commands or run them
    clock,        \* the wall clock datetime.now() read when the last run started
    ticks,        \* how many runs started later than the run before them
    file,         \* the main config file: [exists, content]
    bak,          \* the backup copy main_config_file_path + ".bak"
    main_config,  \* the dict of the running process
    pc,           \* where the running process is: idle (none), take, prune, save
    todo,         \* the keys the loop over main_config['configs'] still has to visit
    time_now,     \* time_now of the running process
    disk,         \* the snapshot paths that exist on the backend
    calls,        \* the btrfs commands the running process has issued, in order
    exit_status,  \* how the last process ended: ok, exit1, crash
    failures,     \* how many btrfs commands have failed so far
    prev_in,      \* classification on its own: newest_snapshot_time
    now_in,       \* classification on its own: time_now
    type_out,     \* classification on its own: the 'type' written
    sv_physical,  \* Subvolume.physical of the object under test
    sv_snapshots, \* Subvolume._snapshots of the object under test
    sv_num,       \* Subvolume.num_snapshots of the object under test
    sv_disk,      \* the snapshot paths on the backend of the object under test
    sv_cmd,       \* the btrfs commands the last call on the object printed or ran
    sv_result,    \* how the last call on the object ended
    sv_returned,  \* the Snapshot the last call on the object returned, if any
    lock,         \* the instance that holds the flock on the lockfile, 0 for none
    cur,          \* the instance whose process pc, main_config, ... are those of
    other_instance, \* pc, main_config, ... of the process of the other instance
    last_taken    \* per subvolume name, the last snapshot a rotation pass took of it

vars ==
    <<testing, clock, ticks, file, bak, main_config, pc, todo, time_now, disk,
      calls, exit_status, failures, prev_in, now_in, type_out,
      sv_physical, sv_snapshots, sv_num, sv_disk, sv_cmd, sv_result, sv_returned,
      lock, cur, other_instance, last_taken>>

rotVars ==
    <<testing, clock, ticks, file, bak, main_config, pc, todo, time_now, disk,
      calls, exit_status, failures>>

clsVars ==
    <<prev_in, now_in, type_out>>

objVars ==
    <<sv_physical, sv_snapshots, sv_num, sv_disk, sv_cmd, sv_result, sv_returned>>

instVars ==
    <<cur, other_instance>>

lockVars ==
    <<lock, cur, other_instance>>

----------------------------------------------------------------------------
(* Bounds *)

\* at most this many runs start later than the run before them
MaxTicks == 2

\* the largest keep-count a user enters at --create-config
MaxKeep == 2

\* classification on its own: the days after 2021-12-01 the two timestamps range over
MaxDayOffset == 103

\* with two subvolume names: at most this many runs start later than the run before
MaxRegistryTicks == 1

\* at most this many btrfs commands fail
MaxFailures == 1

\* the object under test holds at most this many snapshots
MaxSnaps == 3

\* the object under test receives at most this many calls of take_snapshot,
\* append_snapshot and delete_snapshot
MaxCalls == 3

----------------------------------------------------------------------------
(* datetime *)

IsLeap(y) ==
    (y % 4 = 0 /\ y % 100 # 0) \/ (y % 400 = 0)

DaysInYear(y) ==
    IF IsLeap(y) THEN 366 ELSE 365

DaysInMonth(y, m) ==
    IF m = 2 THEN (IF IsLeap(y) THEN 29 ELSE 28)
    ELSE IF m \in {4, 6, 9, 11} THEN 30 ELSE 31

RECURSIVE YearFrom(_, _)
YearFrom(days, y) ==
    IF days < DaysInYear(y) THEN <<y, days>>
    ELSE YearFrom(days - DaysInYear(y), y + 1)

RECURSIVE MonthFrom(_, _, _)
MonthFrom(days, y, m) ==
    IF days < DaysInMonth(y, m) THEN <<m, days + 1>>
    ELSE MonthFrom(days - DaysInMonth(y, m), y, m + 1)

RECURSIVE DaysBeforeYear(_)
DaysBeforeYear(y) ==
    IF y = 2021 THEN 0 ELSE DaysInYear(y - 1) + DaysBeforeYear(y - 1)

RECURSIVE DaysBeforeMonth(_, _)
DaysBeforeMonth(y, m) ==
    IF m = 1 THEN 0 ELSE DaysInMonth(y, m - 1) + DaysBeforeMonth(y, m - 1)

\* datetime.year, .month, .day, .hour, .minute, .isoweekday()
year(t) ==
    YearFrom(t \div 1440, 2021)[1]

month(t) ==
    LET yd == YearFrom(t \div 1440, 2021)
    IN  MonthFrom(yd[2], yd[1], 1)[1]

day(t) ==
    LET yd == YearFrom(t \div 1440, 2021)
    IN  MonthFrom(yd[2], yd[1], 1)[2]

hour(t) ==
    (t % 1440) \div 60

minute(t) ==
    t % 60

isoweekday(t) ==
    (((t \div 1440) + 4) % 7) + 1

\* datetime.isoformat(): the text written to 'creation-date-time' and into names
isoformat(t) ==
    <<year(t), month(t), day(t), hour(t), minute(t)>>

\* datetime.fromisoformat(): the datetime a 'creation-date-time' text stands for
fromisoformat(s) ==
    (DaysBeforeYear(s[1]) + DaysBeforeMonth(s[1], s[2]) + (s[3] - 1)) * 1440
        + s[4] * 60 + s[5]

\* str < str on two isoformat texts
RECURSIVE StrLessFrom(_, _, _)
StrLessFrom(a, b, i) ==
    IF i > Len(a) THEN FALSE
    ELSE IF a[i] # b[i] THEN a[i] < b[i]
    ELSE StrLessFrom(a, b, i + 1)

StrLess(a, b) ==
    StrLessFrom(a, b, 1)

\* timedelta(hours=1)
OneHour == 60

----------------------------------------------------------------------------
(* Tier classification of the rotation pass *)

Tiers == {"hourly", "daily", "weekly", "monthly", "yearly"}

\* the chain without its else branch: no 'type' is written when no test holds
snapshot_type_no_else(now, newest) ==
    IF hour(now) = 0 /\ ~(hour(newest) = 0) THEN "daily"
    ELSE IF isoweekday(now) = 1 /\ ~(isoweekday(newest) = 1) THEN "weekly"
    ELSE IF day(now) = 1 /\ ~(day(newest) = 1) THEN "monthly"
    ELSE IF (month(now) = 1 /\ day(now) = 1)
            /\ ~(month(newest) = 1 /\ day(newest) = 1) THEN "yearly"
    ELSE "KeyError: 'type'"

\* the weekly test without the look at the previous snapshot
snapshot_type_weekly_every_monday(now, newest) ==
    IF hour(now) = 0 /\ ~(hour(newest) = 0) THEN "daily"
    ELSE IF isoweekday(now) = 1 THEN "weekly"
    ELSE IF day(now) = 1 /\ ~(day(newest) = 1) THEN "monthly"
    ELSE IF (month(now) = 1 /\ day(now) = 1)
            /\ ~(month(newest) = 1 /\ day(newest) = 1) THEN "yearly"
    ELSE "hourly"

\* the if/elif chain that writes subvolume['snapshots'][snapshot_name]['type']
snapshot_type(now, newest) ==
    IF hour(now) = 0 /\ ~(hour(newest) = 0) THEN "daily"
    ELSE IF isoweekday(now) = 1 /\ ~(isoweekday(newest) = 1) THEN "weekly"
    ELSE IF day(now) = 1 /\ ~(day(newest) = 1) THEN "monthly"
    ELSE IF (month(now) = 1 /\ day(now) = 1)
            /\ ~(month(newest) = 1 /\ day(newest) = 1) THEN "yearly"
    ELSE "hourly"

----------------------------------------------------------------------------
(* dict: insertion-ordered, a sequence of [key, val] entries *)

Keys(d) ==
    {d[i].key : i \in DOMAIN d}

Has(d, k) ==
    \E i \in DOMAIN d : d[i].key = k

Get(d, k) ==
    d[CHOOSE i \in DOMAIN d : d[i].key = k].val

\* d[k] = v: in place when k is a key already, at the end otherwise
Put(d, k, v) ==
    IF Has(d, k)
    THEN [i \in DOMAIN d |-> IF d[i].key = k THEN [key |-> k, val |-> v] ELSE d[i]]
    ELSE Append(d, [key |-> k, val |-> v])

\* del d[k]
Del(d, k) ==
    SelectSeq(d, LAMBDA e : e.key # k)

\* {}: the dict read_config_file returns for a missing or empty file
EmptyDict ==
    [nonempty |-> FALSE, configs |-> <<>>]

----------------------------------------------------------------------------
(* Inputs *)

\* the subvolume paths given on the command line, <<directory, basename>>:
\* two with one basename, and with a third of another basename
SameNamePaths ==
    {<<"mnt", "a">>, <<"srv", "a">>}

InputPaths ==
    SameNamePaths \cup {<<"mnt", "b">>}

\* the paths `btrfs subvolume show` succeeds on
PhysicalSubvols ==
    {<<"mnt", "a">>, <<"mnt", "b">>}

\* default_config of the script, used for an empty answer
default_config ==
    [t \in Tiers |-> IF t = "weekly" THEN 0 ELSE 10]

\* the answers to "How many ... snapshots to keep?"
KeepAnswers ==
    {[t \in Tiers |-> k] : k \in 0..MaxKeep}

\* the time between the end of one run of the script and the start of the next
Deltas ==
    {0, 30, 60, 1440}

\* the first instant of the model: 2021-12-31T20:00
StartClock ==
    fromisoformat(<<2021, 12, 31, 20, 0>>)

----------------------------------------------------------------------------
(* btrfs commands *)

\* os.path.basename(os.path.normpath(subvolume_path))
basename(path) ==
    path[2]

\* subvolume_name + "-" + time_now.isoformat()
snapshot_name(subvolume_name, now) ==
    [base |-> subvolume_name, iso |-> isoformat(now)]

\* os.path.join(subvolume_path, snapshot_subvol_name, snapshot_name)
snapshot_path(subvolume_path, name) ==
    [sv |-> subvolume_path, name |-> name]

\* btrfs_subvolume_exists: True when testing; otherwise `btrfs subvolume show`
\* on the global subvolume_path, whatever path it was called with
btrfs_subvolume_exists(path, subvolume_path) ==
    IF testing THEN TRUE ELSE subvolume_path \in PhysicalSubvols

\* the command line a btrfs_* function prints (testing) or runs
Call(cmd, path) ==
    [cmd |-> cmd, path |-> path]

\* btrfs_take_snapshot: the backend after the call; ok is whether btrfs succeeded
btrfs_take_snapshot(d, dest, ok) ==
    IF testing THEN d
    ELSE IF ok THEN d \cup {dest} ELSE d

\* btrfs_delete_subvolume up to its logging lines: the backend after the call
btrfs_delete_subvolume(d, path, ok) ==
    IF testing THEN d
    ELSE IF ok THEN d \ {path} ELSE d

\* btrfs_delete_subvolume: whether its logging lines raise (return_val is only
\* read there, never assigned)
btrfs_delete_subvolume_raises ==
    ~testing

----------------------------------------------------------------------------
(* The rotation pass: take and classify *)

\* max(subvolume['snapshots'].items(), key=creation-date-time)[0]: the first
\* entry no other entry's text is greater than
newest_snapshot(snapshots) ==
    LET i == CHOOSE i \in DOMAIN snapshots :
                 /\ \A j \in DOMAIN snapshots :
                        ~StrLess(snapshots[i].val.creation_date_time,
                                 snapshots[j].val.creation_date_time)
                 /\ \A j \in 1..(i - 1) :
                        StrLess(snapshots[j].val.creation_date_time,
                                snapshots[i].val.creation_date_time)
    IN  snapshots[i].key

newest_snapshot_time(snapshots) ==
    fromisoformat(Get(snapshots, newest_snapshot(snapshots)).creation_date_time)

\* time_now >= newest_snapshot_time + timedelta(hours=1)
TakeDue(now, snapshots) ==
    now >= newest_snapshot_time(snapshots) + OneHour

\* the entry written for the new snapshot
NewSnapshot(subvolume, now) ==
    LET name == snapshot_name(subvolume.name, now)
    IN  [name |-> name,
         path |-> snapshot_path(subvolume.path, name),
         creation_date_time |-> isoformat(now),
         type |-> snapshot_type(now, newest_snapshot_time(subvolume.snapshots))]

----------------------------------------------------------------------------
(* The rotation pass: prune *)

\* the order num_snapshots and snapshots_by_type list the types in
TierOrder ==
    <<"hourly", "daily", "weekly", "monthly", "yearly">>

\* the snapshots counted under a type when 'init' is counted as hourly
CountsAs_init_is_hourly(snapshot, type) ==
    IF snapshot.type = "init" THEN type = "hourly" ELSE snapshot.type = type

\* the counting loop: a snapshot is counted under its type unless that is 'init'
CountsAs(snapshot, type) ==
    snapshot.type # "init" /\ snapshot.type = type

\* num_snapshots[type] after the counting loop
num_snapshots(snapshots, type) ==
    Len(SelectSeq(snapshots, LAMBDA e : CountsAs(e.val, type)))

\* snapshots_by_type[type] after the counting loop, keyed by snapshot['name']
RECURSIVE snapshots_by_type_from(_, _, _)
snapshots_by_type_from(snapshots, type, i) ==
    IF i = 0 THEN <<>>
    ELSE LET rest == snapshots_by_type_from(snapshots, type, i - 1)
             s == snapshots[i].val
         IN  IF CountsAs(s, type) THEN Put(rest, s.name, s) ELSE rest

snapshots_by_type(snapshots, type) ==
    snapshots_by_type_from(snapshots, type, Len(snapshots))

\* sorted(..., key=creation-date-time): stable, ascending
RECURSIVE Insert(_, _)
Insert(e, sorted) ==
    IF sorted = <<>> THEN <<e>>
    ELSE LET last == sorted[Len(sorted)]
         IN  IF StrLess(e.val.creation_date_time, last.val.creation_date_time)
             THEN Append(Insert(e, SubSeq(sorted, 1, Len(sorted) - 1)), last)
             ELSE Append(sorted, e)

RECURSIVE sorted_from(_, _)
sorted_from(items, i) ==
    IF i = 0 THEN <<>> ELSE Insert(items[i], sorted_from(items, i - 1))

newlist(snapshots, type) ==
    sorted_from(snapshots_by_type(snapshots, type),
                Len(snapshots_by_type(snapshots, type)))

\* if value > keep: range(value - keep); nothing otherwise
excess(value, keep) ==
    IF value > keep THEN value - keep ELSE 0

\* the entries newlist[sel] the deletion loop of one type visits, in order
to_delete(subvolume, type) ==
    LET n == excess(num_snapshots(subvolume.snapshots, type), subvolume.options[type])
    IN  SubSeq(newlist(subvolume.snapshots, type), 1, n)

\* the deletions of all types, in the order the loops reach them
RECURSIVE scheduled_from(_, _)
scheduled_from(subvolume, i) ==
    IF i = 0 THEN <<>>
    ELSE scheduled_from(subvolume, i - 1) \o to_delete(subvolume, TierOrder[i])

scheduled(subvolume) ==
    scheduled_from(subvolume, Len(TierOrder))

\* del subvolume['snapshots'][newlist[sel][0]] for the first n scheduled deletions
RECURSIVE DelAll(_, _, _)
DelAll(snapshots, dels, n) ==
    IF n = 0 THEN snapshots
    ELSE Del(DelAll(snapshots, dels, n - 1), dels[n].key)

\* the delete commands of the first n scheduled deletions
DeleteCalls(dels, n) ==
    [i \in 1..n |-> Call("delete", dels[i].val.path)]

----------------------------------------------------------------------------
(* The config file *)

NoFile ==
    [exists |-> FALSE, content |-> EmptyDict]

\* a second flock that is granted whoever holds the first
flock_never_fails(holder) ==
    FALSE

\* fcntl.flock(lockfile, LOCK_EX | LOCK_NB) raises IOError: another process
\* holds the lock
flock_fails(holder) ==
    holder # 0

\* read_config_file(main_config_file_path, "main")
read_config_file(f) ==
    IF f.exists THEN f.content ELSE EmptyDict

\* the end of the script: an existing file is copied to .bak and overwritten
\* with toml.dump(main_config, f); a missing one is created and left empty
saved_file(cfg) ==
    IF file.exists THEN [exists |-> TRUE, content |-> cfg]
    ELSE [exists |-> TRUE, content |-> EmptyDict]

saved_bak ==
    IF file.exists THEN file ELSE bak

\* the process is gone: nothing of it is left in memory, and the lockfile it
\* held open is closed
ProcessEnds(status) ==
    /\ pc' = "idle"
    /\ main_config' = EmptyDict
    /\ todo' = <<>>
    /\ time_now' = 0
    /\ exit_status' = status
    /\ lock' = 0

\* a run starts d minutes after the one before it
Elapse(d) ==
    /\ d > 0 => ticks < MaxTicks
    /\ clock' = clock + d
    /\ ticks' = IF d > 0 THEN ticks + 1 ELSE ticks

\* a btrfs command that is run (not printed) succeeds or fails; it fails at
\* most MaxFailures times
Outcome(ok) ==
    /\ ok \/ (~testing /\ failures < MaxFailures)
    /\ failures' = IF ok THEN failures ELSE failures + 1

----------------------------------------------------------------------------
(* --create-config *)

\* every name counts as new
name_registered_never(cfg, name) ==
    FALSE

\* not (subvolume_name not in main_config['configs'])
name_registered(cfg, name) ==
    Has(cfg.configs, name)

\* a new entry whose first snapshot is typed as one of a rotation pass
NewSubvolume_first_is_hourly(path, keep, now) ==
    LET name == basename(path)
        snap == snapshot_name(name, now)
    IN  [name |-> name,
         path |-> path,
         options |-> keep,
         snapshots |-> Put(<<>>, snap,
                           [name |-> snap,
                            path |-> snapshot_path(path, snap),
                            creation_date_time |-> isoformat(now),
                            type |-> "hourly"])]

\* main_config['configs'][subvolume_name] with its init snapshot
NewSubvolume(path, keep, now) ==
    LET name == basename(path)
        snap == snapshot_name(name, now)
    IN  [name |-> name,
         path |-> path,
         options |-> keep,
         snapshots |-> Put(<<>>, snap,
                           [name |-> snap,
                            path |-> snapshot_path(path, snap),
                            creation_date_time |-> isoformat(now),
                            type |-> "init"])]

\* one run of the script with --create-config path, d minutes after the last
\* run; keep are the answers typed, ok whether the btrfs snapshot command succeeds
CreateConfig(d, path, keep, ok) ==
    /\ pc = "idle"
    /\ ~flock_fails(lock)
    /\ Elapse(d)
    /\ LET cfg == read_config_file(file)
           name == basename(path)
           new == NewSubvolume(path, keep, clock')
           dest == snapshot_path(path, snapshot_name(name, clock'))
       IN  IF ~cfg.nonempty
           THEN /\ file' = saved_file(cfg)
                /\ bak' = saved_bak
                /\ calls' = <<>>
                /\ disk' = disk
                /\ ok
                /\ UNCHANGED failures
                /\ ProcessEnds("ok")
           ELSE IF ~btrfs_subvolume_exists(path, path) \/ name_registered(cfg, name)
           THEN /\ calls' = <<>>
                /\ ok
                /\ UNCHANGED <<file, bak, disk, failures>>
                /\ ProcessEnds(IF ~btrfs_subvolume_exists(path, path)
                               THEN "exit 1: not a btrfs subvolume"
                               ELSE "exit 1: already exists")
           ELSE /\ Outcome(ok)
                /\ file' = saved_file([cfg EXCEPT !.configs = Put(@, name, new)])
                /\ bak' = saved_bak
                /\ calls' = <<Call("snapshot", dest)>>
                /\ disk' = btrfs_take_snapshot(disk, dest, ok)
                /\ ProcessEnds("ok")
    /\ UNCHANGED <<testing, clsVars, last_taken, objVars, instVars>>

----------------------------------------------------------------------------
(* The rotation pass (no command given) *)

\* the subvolume the loop is at
subvolume ==
    Get(main_config.configs, Head(todo))

\* the name the pass gives a snapshot of the subvolume the loop is at
new_name ==
    snapshot_name(subvolume.name, time_now)

\* the script starts d minutes after the last run: the config is read, time_now
\* is taken, the loop begins
RotateBegin(d) ==
    /\ pc = "idle"
    /\ ~flock_fails(lock)
    /\ lock' = cur
    /\ Elapse(d)
    /\ LET cfg == read_config_file(file)
       IN  /\ main_config' = cfg
           /\ todo' = [i \in DOMAIN cfg.configs |-> cfg.configs[i].key]
           /\ pc' = IF cfg.nonempty /\ cfg.configs # <<>> THEN "take" ELSE "save"
    /\ time_now' = clock'
    /\ calls' = <<>>
    /\ UNCHANGED <<testing, file, bak, disk, exit_status, failures,
                   clsVars, last_taken, objVars, instVars>>

\* the take-and-classify block for the subvolume the loop is at
Take(ok) ==
    /\ pc = "take"
    /\ IF TakeDue(time_now, subvolume.snapshots)
       THEN LET new == NewSnapshot(subvolume, time_now)
            IN  /\ main_config' =
                       [main_config EXCEPT !.configs =
                           Put(@, Head(todo),
                               [subvolume EXCEPT !.snapshots = Put(@, new.name, new)])]
                /\ calls' = Append(calls, Call("snapshot", new.path))
                /\ disk' = btrfs_take_snapshot(disk, new.path, ok)
                /\ last_taken' = Put(last_taken, Head(todo), new)
                /\ Outcome(ok)
       ELSE /\ ok
            /\ UNCHANGED <<main_config, calls, disk, failures, last_taken>>
    /\ pc' = "prune"
    /\ UNCHANGED <<testing, clock, ticks, file, bak, todo, time_now, exit_status,
                   clsVars, objVars, lockVars>>

\* the backend after the first n scheduled deletions
RECURSIVE DiskAfter(_, _, _, _)
DiskAfter(d, dels, n, ok) ==
    IF n = 0 THEN d
    ELSE btrfs_delete_subvolume(DiskAfter(d, dels, n - 1, ok), dels[n].val.path, ok)

\* the counting and deleting block for the subvolume the loop is at; the first
\* btrfs_delete_subvolume that raises ends the process with a traceback
Prune(ok) ==
    /\ pc = "prune"
    /\ LET dels == scheduled(subvolume)
           n == Len(dels)
       IN  IF n = 0 \/ ~btrfs_delete_subvolume_raises
           THEN /\ ok
                /\ UNCHANGED failures
                /\ main_config' =
                       [main_config EXCEPT !.configs =
                           Put(@, Head(todo),
                               [subvolume EXCEPT !.snapshots = DelAll(@, dels, n)])]
                /\ calls' = calls \o DeleteCalls(dels, n)
                /\ disk' = DiskAfter(disk, dels, n, ok)
                /\ todo' = Tail(todo)
                /\ pc' = IF Tail(todo) = <<>> THEN "save" ELSE "take"
                /\ UNCHANGED <<time_now, exit_status, lock>>
           ELSE /\ calls' = calls \o DeleteCalls(dels, 1)
                /\ disk' = DiskAfter(disk, dels, 1, ok)
                /\ Outcome(ok)
                /\ ProcessEnds("crash")
    /\ UNCHANGED <<testing, clock, ticks, file, bak, clsVars, last_taken, objVars, instVars>>

\* the end of the script: the config file is backed up and written
Save ==
    /\ pc = "save"
    /\ file' = saved_file(main_config)
    /\ bak' = saved_bak
    /\ ProcessEnds("ok")
    /\ UNCHANGED <<testing, clock, ticks, disk, calls, failures, clsVars, last_taken, objVars,
                   instVars>>

----------------------------------------------------------------------------
(* The script over time *)

\* what is in memory of an instance that is not running
IdleInstance ==
    [pc |-> "idle", main_config |-> EmptyDict, todo |-> <<>>, time_now |-> 0,
     calls |-> <<>>, exit_status |-> "ok"]

\* one instance, not started, and nobody holds the lock
NoSecondInstance ==
    /\ lock = 0
    /\ cur = 1
    /\ other_instance = IdleInstance
    /\ last_taken = <<>>

\* no Subvolume object is under test
NoObject ==
    /\ sv_physical = FALSE
    /\ sv_snapshots = <<>>
    /\ sv_num = [t \in Tiers |-> 0]
    /\ sv_disk = {}
    /\ sv_cmd = <<>>
    /\ sv_result = "none"
    /\ sv_returned = <<>>

Init ==
    /\ testing \in BOOLEAN
    /\ clock = StartClock
    /\ ticks = 0
    /\ file \in {NoFile,
                 [exists |-> TRUE, content |-> EmptyDict],
                 [exists |-> TRUE, content |-> [nonempty |-> TRUE, configs |-> <<>>]]}
    /\ bak = NoFile
    /\ main_config = EmptyDict
    /\ pc = "idle"
    /\ todo = <<>>
    /\ time_now = 0
    /\ disk = {}
    /\ calls = <<>>
    /\ exit_status = "ok"
    /\ failures = 0
    /\ prev_in = 0
    /\ now_in = 0
    /\ type_out = "none"
    /\ NoObject
    /\ NoSecondInstance

\* one subvolume name, two paths
\* between two runs the administrator lowers the keep-counts of a subvolume in
\* the main settings file (--edit-config prints the table and leaves the change
\* to an editor)
EditSettings(keep) ==
    /\ pc = "idle"
    /\ file.exists
    /\ \E i \in DOMAIN file.content.configs :
           /\ \A t \in Tiers : keep[t] < file.content.configs[i].val.options[t]
           /\ file' = [file EXCEPT !.content.configs[i].val.options = keep]
    /\ UNCHANGED <<testing, clock, ticks, bak, main_config, pc, todo, time_now,
                   disk, calls, exit_status, failures, clsVars, last_taken, objVars, lockVars>>

Next ==
    \/ \E d \in Deltas, path \in SameNamePaths, keep \in KeepAnswers, ok \in BOOLEAN :
           CreateConfig(d, path, keep, ok)
    \/ \E keep \in KeepAnswers : EditSettings(keep)
    \/ \E d \in Deltas : RotateBegin(d)
    \/ \E ok \in BOOLEAN : Take(ok)
    \/ \E ok \in BOOLEAN : Prune(ok)
    \/ Save

Spec ==
    Init /\ [][Next]_vars

\* the delays between runs when the table holds two names
RegistryDeltas ==
    {0, OneHour}

\* two subvolume names, three paths, over a shorter time
NextRegistry ==
    \/ \E d \in RegistryDeltas, path \in InputPaths, keep \in KeepAnswers, ok \in BOOLEAN :
           CreateConfig(d, path, keep, ok) /\ ticks' <= MaxRegistryTicks
    \/ \E d \in RegistryDeltas : RotateBegin(d) /\ ticks' <= MaxRegistryTicks
    \/ \E ok \in BOOLEAN : Take(ok)
    \/ \E ok \in BOOLEAN : Prune(ok)
    \/ Save

SpecRegistry ==
    Init /\ [][NextRegistry]_vars

----------------------------------------------------------------------------
(* Two instances of the script *)

\* an instance is started while the lock is held: sys.exit with the "Multiple
\* instances" message, before anything is read
LockedOut ==
    /\ pc = "idle"
    /\ flock_fails(lock)
    /\ exit_status' = "exit: multiple instances"
    /\ UNCHANGED <<testing, clock, ticks, file, bak, main_config, pc, todo, time_now,
                   disk, calls, failures, clsVars, last_taken, objVars, lockVars>>

\* the scheduler turns from the process of one instance to that of the other
Switch ==
    /\ cur' = 3 - cur
    /\ other_instance' = [pc |-> pc, main_config |-> main_config, todo |-> todo,
                          time_now |-> time_now, calls |-> calls,
                          exit_status |-> exit_status]
    /\ pc' = other_instance.pc
    /\ main_config' = other_instance.main_config
    /\ todo' = other_instance.todo
    /\ time_now' = other_instance.time_now
    /\ calls' = other_instance.calls
    /\ exit_status' = other_instance.exit_status
    /\ UNCHANGED <<testing, clock, ticks, file, bak, disk, failures, lock,
                   clsVars, last_taken, objVars>>

\* two instances started at any moments, over one subvolume name
NextLock ==
    \/ \E d \in RegistryDeltas, path \in SameNamePaths, keep \in KeepAnswers, ok \in BOOLEAN :
           CreateConfig(d, path, keep, ok) /\ ticks' <= MaxRegistryTicks
    \/ \E d \in RegistryDeltas : RotateBegin(d) /\ ticks' <= MaxRegistryTicks
    \/ LockedOut
    \/ Switch
    \/ \E ok \in BOOLEAN : Take(ok)
    \/ \E ok \in BOOLEAN : Prune(ok)
    \/ Save

SpecLock ==
    Init /\ [][NextLock]_vars

----------------------------------------------------------------------------
(* The take-and-classify block, statement by statement *)

\* subvolume['snapshots'][snapshot_name] = {} when the snapshot is due
TakeEntry ==
    /\ pc = "take"
    /\ IF TakeDue(time_now, subvolume.snapshots)
       THEN /\ main_config' =
                   [main_config EXCEPT !.configs =
                       Put(@, Head(todo),
                           [subvolume EXCEPT !.snapshots = Put(@, new_name, <<>>)])]
            /\ pc' = "snapshot"
       ELSE /\ pc' = "prune"
            /\ UNCHANGED main_config
    /\ UNCHANGED <<testing, clock, ticks, file, bak, todo, time_now, disk, calls,
                   exit_status, failures, clsVars, last_taken, objVars, lockVars>>

\* btrfs_take_snapshot is called, then name, path and creation-date-time are
\* written into the entry
TakeSnapshot(ok) ==
    /\ pc = "snapshot"
    /\ LET path == snapshot_path(subvolume.path, new_name)
       IN  /\ calls' = Append(calls, Call("snapshot", path))
           /\ disk' = btrfs_take_snapshot(disk, path, ok)
           /\ Outcome(ok)
           /\ main_config' =
                  [main_config EXCEPT !.configs =
                      Put(@, Head(todo),
                          [subvolume EXCEPT !.snapshots =
                              Put(@, new_name,
                                  [name |-> new_name,
                                   path |-> path,
                                   creation_date_time |-> isoformat(time_now)])])]
    /\ pc' = "classify"
    /\ UNCHANGED <<testing, clock, ticks, file, bak, todo, time_now, exit_status,
                   clsVars, last_taken, objVars, lockVars>>

\* the if/elif chain writes 'type' from time_now and the newest_snapshot_time
\* read before the entry was made
TakeClassify ==
    /\ pc = "classify"
    /\ LET before == [subvolume EXCEPT !.snapshots = Del(@, new_name)]
           new == NewSnapshot(before, time_now)
       IN  /\ main_config' =
                  [main_config EXCEPT !.configs =
                      Put(@, Head(todo),
                          [subvolume EXCEPT !.snapshots = Put(@, new_name, new)])]
           /\ last_taken' = Put(last_taken, Head(todo), new)
    /\ pc' = "prune"
    /\ UNCHANGED <<testing, clock, ticks, file, bak, todo, time_now, disk, calls,
                   exit_status, failures, clsVars, objVars, lockVars>>

\* the pass over two subvolume names with the take block in its statements
NextSteps ==
    \/ \E d \in RegistryDeltas, path \in InputPaths, keep \in KeepAnswers, ok \in BOOLEAN :
           CreateConfig(d, path, keep, ok) /\ ticks' <= MaxRegistryTicks
    \/ \E d \in RegistryDeltas : RotateBegin(d) /\ ticks' <= MaxRegistryTicks
    \/ TakeEntry
    \/ \E ok \in BOOLEAN : TakeSnapshot(ok)
    \/ TakeClassify
    \/ \E ok \in BOOLEAN : Prune(ok)
    \/ Save

SpecSteps ==
    Init /\ [][NextSteps]_vars

----------------------------------------------------------------------------
(* --delete-config *)

\* the names given to --delete-config
ConfigNames ==
    {basename(path) : path \in InputPaths}

\* os.path.join(path, snapshot_subvol_name): the snapshot directory
snapshot_subvol_path(path) ==
    [sv |-> path, name |-> [base |-> ".snapshots", iso |-> <<>>]]

\* one run of the script with --delete-config config_name, with or without
\* --delete-snapshots, d minutes after the last run. With --delete-snapshots
\* the run ends in a NameError: when testing after the loop has printed a
\* delete command for every snapshot (the name `config` of the line that
\* builds the snapshot directory's path is not bound), otherwise in the first
\* btrfs_subvolume_exists (its `subvolume_path` is not bound in this branch)
DeleteConfig(d, config_name, delete_snapshots) ==
    /\ pc = "idle"
    /\ ~flock_fails(lock)
    /\ Elapse(d)
    /\ LET cfg == read_config_file(file)
       IN  IF ~cfg.nonempty
           THEN /\ file' = saved_file(cfg)
                /\ bak' = saved_bak
                /\ calls' = <<>>
                /\ ProcessEnds("ok")
           ELSE IF ~Has(cfg.configs, config_name)
           THEN /\ calls' = <<>>
                /\ UNCHANGED <<file, bak>>
                /\ ProcessEnds("exit 1: did not exist")
           ELSE IF delete_snapshots
           THEN LET snapshots == Get(cfg.configs, config_name).snapshots
                IN  /\ calls' = IF testing THEN DeleteCalls(snapshots, Len(snapshots))
                                ELSE <<>>
                    /\ UNCHANGED <<file, bak>>
                    /\ ProcessEnds("crash")
           ELSE /\ file' = saved_file([cfg EXCEPT !.configs = Del(@, config_name)])
                /\ bak' = saved_bak
                /\ calls' = <<>>
                /\ ProcessEnds("ok")
    /\ UNCHANGED <<testing, disk, failures, clsVars, last_taken, objVars, instVars>>

\* a config of one name is created, rotated and deleted
NextDelete ==
    \/ \E d \in RegistryDeltas, path \in SameNamePaths, keep \in KeepAnswers, ok \in BOOLEAN :
           CreateConfig(d, path, keep, ok) /\ ticks' <= MaxRegistryTicks
    \/ \E d \in RegistryDeltas, config_name \in ConfigNames, delete_snapshots \in BOOLEAN :
           DeleteConfig(d, config_name, delete_snapshots) /\ ticks' <= MaxRegistryTicks
    \/ \E d \in RegistryDeltas : RotateBegin(d) /\ ticks' <= MaxRegistryTicks
    \/ \E ok \in BOOLEAN : Take(ok)
    \/ \E ok \in BOOLEAN : Prune(ok)
    \/ Save

SpecDelete ==
    Init /\ [][NextDelete]_vars

----------------------------------------------------------------------------
(* The save of the config file, with the failures of its file operations *)

\* a save that opens the file for writing whether or not the copy was made
config_file_after_any_copy(copy_ok, open_ok, cfg) ==
    IF file.exists
    THEN IF open_ok THEN [exists |-> TRUE, content |-> cfg] ELSE file
    ELSE IF open_ok THEN [exists |-> TRUE, content |-> EmptyDict] ELSE file

\* the main config file after the save: an existing file is opened with 'w'
\* and written only when shutil.copy2 raised nothing; a missing one is created
\* with 'w+' and left empty
config_file_after(copy_ok, open_ok, cfg) ==
    IF file.exists
    THEN IF copy_ok /\ open_ok THEN [exists |-> TRUE, content |-> cfg] ELSE file
    ELSE IF open_ok THEN [exists |-> TRUE, content |-> EmptyDict] ELSE file

\* the .bak file after shutil.copy2: the copy; after a copy that raised, what
\* was there or a file cut short
bak_file_after(copy_ok) ==
    IF ~file.exists THEN {bak}
    ELSE IF copy_ok THEN {file}
    ELSE {bak, [exists |-> TRUE, content |-> EmptyDict]}

\* how the save ends: sys.exit(1) after an IOError
save_status(copy_ok, open_ok) ==
    IF file.exists /\ ~copy_ok THEN "exit 1: failed to backup"
    ELSE IF ~open_ok THEN "exit 1: could not be opened"
    ELSE "ok"

\* the end of the script; copy_ok and open_ok are whether shutil.copy2 and
\* open raise no IOError
save_config(copy_ok, open_ok) ==
    /\ pc = "save"
    /\ ~file.exists => copy_ok
    /\ file' = config_file_after(copy_ok, open_ok, main_config)
    /\ bak' \in bak_file_after(copy_ok)
    /\ ProcessEnds(save_status(copy_ok, open_ok))
    /\ UNCHANGED <<testing, clock, ticks, disk, calls, failures, clsVars, last_taken, objVars,
                   instVars>>

\* passes over one subvolume name whose save can fail
NextSave ==
    \/ \E d \in RegistryDeltas, path \in SameNamePaths, keep \in KeepAnswers, ok \in BOOLEAN :
           CreateConfig(d, path, keep, ok) /\ ticks' <= MaxRegistryTicks
    \/ \E d \in RegistryDeltas : RotateBegin(d) /\ ticks' <= MaxRegistryTicks
    \/ \E ok \in BOOLEAN : Take(ok)
    \/ \E ok \in BOOLEAN : Prune(ok)
    \/ \E copy_ok, open_ok \in BOOLEAN : save_config(copy_ok, open_ok)

SpecSave ==
    Init /\ [][NextSave]_vars

----------------------------------------------------------------------------
(* Classification on its own: every pair of timestamps at least an hour apart *)

\* the timestamps tried: 00:00, 10:00 and 23:00 of every day from 2021-12-01 on
ClassifyTimes ==
    {fromisoformat(<<2021, 12, 1, 0, 0>>) + d * 1440 + h * 60 :
        d \in 0..MaxDayOffset, h \in {0, 10, 23}}

InitClassify ==
    /\ prev_in \in ClassifyTimes
    /\ now_in \in ClassifyTimes
    /\ now_in >= prev_in + OneHour
    /\ type_out = "none"
    /\ testing = TRUE
    /\ clock = StartClock
    /\ ticks = 0
    /\ file = NoFile
    /\ bak = NoFile
    /\ main_config = EmptyDict
    /\ pc = "idle"
    /\ todo = <<>>
    /\ time_now = 0
    /\ disk = {}
    /\ calls = <<>>
    /\ exit_status = "ok"
    /\ failures = 0
    /\ NoObject
    /\ NoSecondInstance

\* the if/elif chain of the pass, run on time_now = now_in and
\* newest_snapshot_time = prev_in
Classify ==
    /\ type_out = "none"
    /\ type_out' = snapshot_type(now_in, prev_in)
    /\ UNCHANGED <<prev_in, now_in, rotVars, objVars, lockVars, last_taken>>

SpecClassify ==
    InitClassify /\ [][Classify]_vars

----------------------------------------------------------------------------
(* btrfs_control: one Subvolume object and the Snapshot objects it holds.
   TESTING of btrfs_control is the variable testing. *)

ObjectPath ==
    <<"mnt", "a">>

\* the type_ values the calls are tried with
ObjectTypes ==
    {"init", "hourly", "daily"}

\* the creation time of the snapshots a config file hands to append_snapshot
LoadTimes ==
    {StartClock - 60}

\* Snapshot.exists: True when testing; otherwise `btrfs subvolume show`
Snapshot_exists(path, d) ==
    IF testing THEN TRUE ELSE path \in d

\* Snapshot.__init__ of a snapshot of the object, with the backend holding d
Snapshot(type_, creation_date_time, d) ==
    LET name == snapshot_name(basename(ObjectPath), creation_date_time)
    IN  [name |-> name,
         path |-> snapshot_path(ObjectPath, name),
         type_ |-> type_,
         creation_date_time |-> creation_date_time,
         read_only |-> TRUE,
         physical |-> Snapshot_exists(snapshot_path(ObjectPath, name), d)]

\* Snapshot.__eq__: every attribute but physical
Snapshot_eq(self, other) ==
    /\ self.path = other.path
    /\ self.name = other.name
    /\ self.creation_date_time = other.creation_date_time
    /\ self.type_ = other.type_
    /\ self.read_only = other.read_only

\* list.index: the first position whose element equals x, 0 when there is none
index(list, x) ==
    IF \E i \in DOMAIN list : Snapshot_eq(list[i], x)
    THEN CHOOSE i \in DOMAIN list :
             /\ Snapshot_eq(list[i], x)
             /\ \A j \in 1..(i - 1) : ~Snapshot_eq(list[j], x)
    ELSE 0

\* list.remove of an element that is in the list
remove(list, x) ==
    SubSeq(list, 1, index(list, x) - 1) \o SubSeq(list, index(list, x) + 1, Len(list))

\* self.num_snapshots[type_] += by: a KeyError for a type_ that is no key
HasCount(type_) ==
    type_ \in DOMAIN sv_num

\* one more call of take_snapshot, append_snapshot or delete_snapshot
Called ==
    /\ ticks < MaxCalls
    /\ ticks' = ticks + 1

\* a take that goes ahead whatever self.physical is
CanTake_always ==
    TRUE

\* `if self.physical:` of take_snapshot
CanTake ==
    sv_physical

\* Subvolume.take_snapshot(type_), d minutes after the last call; ok is whether
\* the btrfs command succeeds
take_snapshot(type_, d, ok) ==
    /\ Called
    /\ Len(sv_snapshots) < MaxSnaps
    /\ testing => ok
    /\ clock' = clock + d
    /\ IF CanTake
       THEN LET time_now_ == clock'
                snapshot_path_ == snapshot_path(ObjectPath,
                                      snapshot_name(basename(ObjectPath), time_now_))
            IN  /\ sv_cmd' = <<Call("snapshot", snapshot_path_)>>
                /\ sv_disk' = IF testing \/ ~ok THEN sv_disk
                              ELSE sv_disk \cup {snapshot_path_}
                /\ sv_snapshots' = Append(sv_snapshots, Snapshot(type_, time_now_, sv_disk'))
                /\ IF HasCount(type_)
                   THEN /\ sv_num' = [sv_num EXCEPT ![type_] = @ + 1]
                        /\ sv_result' = "returned"
                        /\ sv_returned' = <<Snapshot(type_, time_now_, sv_disk')>>
                   ELSE /\ sv_num' = sv_num
                        /\ sv_result' = "KeyError"
                        /\ sv_returned' = <<>>
       ELSE /\ ok
            /\ sv_cmd' = <<>>
            /\ sv_result' = "logged: does not exist on disk"
            /\ sv_returned' = <<>>
            /\ UNCHANGED <<sv_disk, sv_snapshots, sv_num>>
    /\ UNCHANGED <<testing, file, bak, main_config, pc, todo, time_now, disk, calls,
                   exit_status, failures, clsVars, last_taken, sv_physical, lockVars>>

\* Subvolume.append_snapshot(snapshot)
append_snapshot(snapshot) ==
    /\ Called
    /\ Len(sv_snapshots) < MaxSnaps
    /\ sv_snapshots' = Append(sv_snapshots, snapshot)
    /\ IF HasCount(snapshot.type_)
       THEN /\ sv_num' = [sv_num EXCEPT ![snapshot.type_] = @ + 1]
            /\ sv_result' = "returned"
       ELSE /\ sv_num' = sv_num
            /\ sv_result' = "KeyError"
    /\ sv_cmd' = <<>>
    /\ sv_returned' = <<>>
    /\ UNCHANGED <<testing, clock, file, bak, main_config, pc, todo, time_now, disk,
                   calls, exit_status, failures, clsVars, last_taken, sv_physical, sv_disk,
                   lockVars>>

\* Subvolume.delete_snapshot(snapshot) with Snapshot.delete inside it; ok is
\* whether the btrfs command succeeds
delete_snapshot(snapshot, ok) ==
    /\ Called
    /\ sv_returned' = <<>>
    /\ (testing \/ ~snapshot.physical) => ok
    /\ IF ~HasCount(snapshot.type_)
       THEN /\ ok
            /\ sv_result' = "KeyError"
            /\ sv_cmd' = <<>>
            /\ UNCHANGED <<sv_num, sv_disk, sv_snapshots>>
       ELSE /\ sv_num' = [sv_num EXCEPT ![snapshot.type_] = @ - 1]
            /\ IF snapshot.physical
               THEN /\ sv_cmd' = <<Call("delete", snapshot.path)>>
                    /\ sv_disk' = IF testing \/ ~ok THEN sv_disk
                                  ELSE sv_disk \ {snapshot.path}
               ELSE /\ sv_cmd' = <<>>
                    /\ sv_disk' = sv_disk
            /\ IF index(sv_snapshots, snapshot) # 0
               THEN /\ sv_snapshots' = remove(sv_snapshots, snapshot)
                    /\ sv_result' = "returned"
               ELSE /\ sv_snapshots' = sv_snapshots
                    /\ sv_result' = "ValueError"
    /\ UNCHANGED <<testing, clock, file, bak, main_config, pc, todo, time_now, disk,
                   calls, exit_status, failures, clsVars, last_taken, sv_physical, lockVars>>

\* a sort that leaves the list as it is
sort_leaves_order(list) ==
    list

\* Snapshot.__lt__
Snapshot_lt(self, snapshot) ==
    self.creation_date_time < snapshot.creation_date_time

\* list.sort of one more element: behind every element it is not less than
RECURSIVE insort(_, _)
insort(x, sorted) ==
    IF sorted = <<>> THEN <<x>>
    ELSE IF Snapshot_lt(x, sorted[Len(sorted)])
         THEN Append(insort(x, SubSeq(sorted, 1, Len(sorted) - 1)), sorted[Len(sorted)])
         ELSE Append(sorted, x)

\* Subvolume.sort, list.sort: ascending by Snapshot.__lt__, stable
RECURSIVE sort(_)
sort(list) ==
    IF list = <<>> THEN <<>>
    ELSE insort(list[Len(list)], sort(SubSeq(list, 1, Len(list) - 1)))

\* the type_ values newest_snapshot and oldest_snapshot are tried with; "None"
\* is the default type_=None
QueryTypes ==
    {"None", "hourly"}

\* sublist of newest_snapshot and oldest_snapshot, of the sorted collection
sublist(snapshots, type_) ==
    IF type_ # "None"
    THEN sort(SelectSeq(snapshots, LAMBDA snapshot : snapshot.type_ = type_))
    ELSE snapshots

\* Subvolume.newest_snapshot(type_) and Subvolume.oldest_snapshot(type_): the
\* element at position -1 (last) or 0 (first) of the sublist
pick_snapshot(type_, last) ==
    /\ sv_snapshots' = sort(sv_snapshots)
    /\ LET list == sublist(sv_snapshots', type_)
       IN  IF list = <<>>
           THEN /\ sv_result' = "IndexError"
                /\ sv_returned' = <<>>
           ELSE /\ sv_result' = "returned"
                /\ sv_returned' = <<IF last THEN list[Len(list)] ELSE list[1]>>
    /\ sv_cmd' = <<>>
    /\ UNCHANGED <<testing, clock, ticks, file, bak, main_config, pc, todo, time_now,
                   disk, calls, exit_status, failures, clsVars, last_taken, sv_physical, sv_num,
                   sv_disk, lockVars>>

newest_snapshot_of(type_) ==
    pick_snapshot(type_, TRUE)

oldest_snapshot_of(type_) ==
    pick_snapshot(type_, FALSE)

\* the snapshots a caller may hand over: what a config file holds of the object
Loaded ==
    {Snapshot(type_, t, sv_disk) : type_ \in ObjectTypes, t \in LoadTimes}

\* the snapshots the object holds
Held ==
    {sv_snapshots[i] : i \in DOMAIN sv_snapshots}

InitSubvolume ==
    /\ testing \in BOOLEAN
    /\ sv_physical \in (IF testing THEN {TRUE} ELSE BOOLEAN)
    /\ sv_snapshots = <<>>
    /\ sv_num = [t \in Tiers |-> 0]
    /\ sv_disk = {}
    /\ sv_cmd = <<>>
    /\ sv_result = "none"
    /\ sv_returned = <<>>
    /\ clock = StartClock
    /\ ticks = 0
    /\ file = NoFile
    /\ bak = NoFile
    /\ main_config = EmptyDict
    /\ pc = "idle"
    /\ todo = <<>>
    /\ time_now = 0
    /\ disk = {}
    /\ calls = <<>>
    /\ exit_status = "ok"
    /\ failures = 0
    /\ prev_in = 0
    /\ now_in = 0
    /\ type_out = "none"
    /\ NoSecondInstance

NextSubvolume ==
    \/ \E type_ \in ObjectTypes, d \in {0, OneHour}, ok \in BOOLEAN :
           take_snapshot(type_, d, ok)
    \/ \E snapshot \in Loaded : append_snapshot(snapshot)
    \/ \E snapshot \in Held \cup Loaded, ok \in BOOLEAN : delete_snapshot(snapshot, ok)
    \/ \E type_ \in QueryTypes : newest_snapshot_of(type_)
    \/ \E type_ \in QueryTypes : oldest_snapshot_of(type_)

SpecSubvolume ==
    InitSubvolume /\ [][NextSubvolume]_vars

----------------------------------------------------------------------------
(* --delete-snapshot: the prompts *)

\* what is typed at "Enter number of the snapshot you want to delete: "
NumberInputs ==
    {[kind |-> "empty", value |-> 0], [kind |-> "text", value |-> 0]}
        \cup {[kind |-> "int", value |-> n] : n \in {0 - MaxSnaps - 1, -1, 0, 1, MaxSnaps}}

\* what is typed at "Please enter "Y" or "N"."
Answers ==
    {"y", "N", ""}

\* answer.upper()
upper(answer) ==
    IF answer = "y" THEN "Y" ELSE IF answer = "n" THEN "N" ELSE answer

\* self._snapshots[position] of a Python list: negative positions count from
\* the end; 0 when the position is out of range (IndexError)
getitem(snapshots, position) ==
    IF position >= 0 /\ position < Len(snapshots) THEN position + 1
    ELSE IF position < 0 /\ position >= 0 - Len(snapshots)
    THEN Len(snapshots) + position + 1
    ELSE 0

\* one round of the two prompts of --delete-snapshot on the listed subvolume:
\* tmp is typed at the first and, when the number passes `index < len`,
\* answer at the second, whose text shows temp_sub[index]. "Y" leaves the loop
\* by `break`; the delete_snapshot call stands after the break
delete_snapshot_prompt(tmp, answer) ==
    /\ IF tmp.kind = "empty"
       THEN /\ sv_result' = "exit 0"
            /\ sv_returned' = <<>>
       ELSE IF tmp.kind = "text" \/ ~(tmp.value < Len(sv_snapshots))
       THEN /\ sv_result' = "try again"
            /\ sv_returned' = <<>>
       ELSE IF getitem(sv_snapshots, tmp.value) = 0
       THEN /\ sv_result' = "IndexError"
            /\ sv_returned' = <<>>
       ELSE /\ sv_returned' = <<sv_snapshots[getitem(sv_snapshots, tmp.value)]>>
            /\ sv_result' = IF upper(answer) = "N" THEN "exit 0"
                            ELSE IF upper(answer) = "Y" THEN "returned"
                            ELSE "try again"
    /\ sv_cmd' = <<>>
    /\ UNCHANGED <<testing, clock, ticks, file, bak, main_config, pc, todo, time_now,
                   disk, calls, exit_status, failures, clsVars, last_taken, sv_physical, sv_num,
                   sv_disk, sv_snapshots, lockVars>>

\* the object is filled, and snapshots of it are deleted at the prompt
NextPrompt ==
    \/ \E type_ \in ObjectTypes, d \in {0, OneHour}, ok \in BOOLEAN :
           take_snapshot(type_, d, ok)
    \/ \E snapshot \in Loaded : append_snapshot(snapshot)
    \/ \E tmp \in NumberInputs, answer \in Answers : delete_snapshot_prompt(tmp, answer)

SpecPrompt ==
    InitSubvolume /\ [][NextPrompt]_vars

----------------------------------------------------------------------------
(* C1, C2: tier classification *)

\* the first match in the order yearly, monthly, weekly, daily, hourly
FirstMatchYearlyFirst(now, newest) ==
    IF (month(now) = 1 /\ day(now) = 1)
       /\ ~(month(newest) = 1 /\ day(newest) = 1) THEN "yearly"
    ELSE IF day(now) = 1 /\ ~(day(newest) = 1) THEN "monthly"
    ELSE IF isoweekday(now) = 1 /\ ~(isoweekday(newest) = 1) THEN "weekly"
    ELSE IF hour(now) = 0 /\ ~(hour(newest) = 0) THEN "daily"
    ELSE "hourly"

\* C1: for every pair (prev, now) with now >= prev + 1 hour the tier written is
\* the first match in the order yearly, monthly, weekly, daily, hourly; for
\* prev = 2021-12-31T23:00 and now = 2022-01-01T00:00 that is yearly.
\* The pass tests daily first: it writes daily for that pair.
C1_YearlyFirst ==
    type_out # "none" =>
        /\ type_out = FirstMatchYearlyFirst(now_in, prev_in)
        /\ (prev_in = fromisoformat(<<2021, 12, 31, 23, 0>>)
            /\ now_in = fromisoformat(<<2022, 1, 1, 0, 0>>)) => type_out = "yearly"

\* the pair of C2 has been classified
C2_Pair ==
    /\ prev_in = fromisoformat(<<2022, 3, 7, 10, 0>>)
    /\ now_in = fromisoformat(<<2022, 3, 14, 10, 0>>)
    /\ isoweekday(prev_in) = 1
    /\ isoweekday(now_in) = 1
    /\ type_out # "none"

\* C2 as stated: prev = 2022-03-07T10:00 and now = 2022-03-14T10:00, both
\* Mondays, give weekly.
C2_MondayToMondayWeekly ==
    C2_Pair => type_out = "weekly"

\* C2 amended: prev = 2022-03-07T10:00 and now = 2022-03-14T10:00, both Mondays,
\* give hourly: weekly is written only when the previous snapshot is not of a Monday.
C2_MondayToMondayHourly ==
    C2_Pair => type_out = "hourly"

C2_Witness ==
    C2_Pair

----------------------------------------------------------------------------
(* C3, C4, C5, C6, C9, C10: the rotation pass *)

AllTypes ==
    Tiers \cup {"init"}

\* the entries of a collection that are of a type
Members(snapshots, type) ==
    {snapshots[i].val : i \in DOMAIN snapshots} \cap
        {s \in {snapshots[i].val : i \in DOMAIN snapshots} : s.type = type}

\* the subvolume the loop is at, after the step
subvolume_after ==
    Get(main_config'.configs, Head(todo))

\* the delete commands a step adds
NewDeleteCalls ==
    {calls'[i].path : i \in {j \in DOMAIN calls' : j > Len(calls) /\ calls'[j].cmd = "delete"}}

\* the collection a pruning step leaves: the one the process goes on with, or,
\* when the step ends in a traceback, the one it found (no del has run)
LeftBy ==
    IF pc' = "idle" THEN subvolume.snapshots ELSE subvolume_after.snapshots

\* C3: after the pruning step of a rotation pass the subvolume's collection
\* holds, of every tier hourly, daily, weekly, monthly, yearly, at most
\* keep-count snapshots, and as many init snapshots as before the step.
C3_PruneWithinKeep ==
    [][pc = "prune" =>
         /\ \A t \in Tiers :
                Cardinality(Members(LeftBy, t)) <= subvolume.options[t]
         /\ Cardinality(Members(LeftBy, "init"))
                = Cardinality(Members(subvolume.snapshots, "init"))]_vars

\* C4: a pruning step deletes, of each tier with more members than its
\* keep-count, exactly count - keep-count snapshots, those with the smallest
\* creation timestamps, and nothing of the other tiers; the delete commands it
\* issues are for exactly these snapshots.
C4_PruneOldest ==
    [][pc = "prune" =>
         LET before == subvolume.snapshots
             gone == {before[i].val : i \in DOMAIN before} \
                         {LeftBy[i].val : i \in DOMAIN LeftBy}
         IN  /\ {LeftBy[i].val : i \in DOMAIN LeftBy} \subseteq
                    {before[i].val : i \in DOMAIN before}
             /\ NewDeleteCalls = {s.path : s \in gone}
             /\ \A t \in AllTypes :
                    LET n == Cardinality(Members(before, t))
                        k == IF t = "init" THEN n ELSE subvolume.options[t]
                        g == {s \in gone : s.type = t}
                    IN  /\ Cardinality(g) = IF n > k THEN n - k ELSE 0
                        /\ \A d \in g : \A r \in Members(LeftBy, t) :
                               fromisoformat(d.creation_date_time)
                                   < fromisoformat(r.creation_date_time)]_vars

\* the paths of the init snapshots a config holds
InitPaths(cfg) ==
    UNION {{s.path : s \in Members(cfg.configs[i].val.snapshots, "init")} :
              i \in DOMAIN cfg.configs}

\* a step of a rotation pass
PassStep ==
    pc \in {"take", "prune", "save"} \/ pc' \in {"take", "prune", "save"}

\* C5: whatever the keep-counts, no step of a rotation pass removes an init
\* snapshot from the collection it works on or from the config file, issues a
\* delete command for one, or takes one off the backend.
C5_InitNeverPruned ==
    [][PassStep =>
         /\ InitPaths(file.content) \subseteq InitPaths(file'.content)
         /\ pc' # "idle" => InitPaths(main_config) \subseteq InitPaths(main_config')
         /\ NewDeleteCalls \cap (InitPaths(main_config) \cup InitPaths(file.content)) = {}
         /\ (InitPaths(file.content) \cap disk) \subseteq disk']_vars

\* a pass with every keep-count 0 has pruned, and the init snapshot is still
\* there, with the backend holding it
C5_Witness ==
    /\ pc = "idle"
    /\ exit_status = "ok"
    /\ \E i \in DOMAIN calls : calls[i].cmd = "delete"
    /\ \E i \in DOMAIN file.content.configs :
           /\ \A t \in Tiers : file.content.configs[i].val.options[t] = 0
           /\ Members(file.content.configs[i].val.snapshots, "init") # {}
           /\ Len(file.content.configs[i].val.snapshots) = 1

\* the greatest creation timestamp of a collection
NewestTime(snapshots) ==
    CHOOSE t \in {fromisoformat(snapshots[i].val.creation_date_time) : i \in DOMAIN snapshots} :
        \A i \in DOMAIN snapshots : fromisoformat(snapshots[i].val.creation_date_time) <= t

\* the pass has taken a snapshot of the subvolume the loop is at
Taken ==
    \E i \in DOMAIN calls :
        calls[i] = Call("snapshot", snapshot_path(subvolume.path, new_name))

\* C6: when the newest snapshot of the subvolume is less than one hour older
\* than now, the pass does nothing for the subvolume: the take step takes no
\* snapshot, and the pruning step that follows issues no command, does not end
\* the process, and leaves the collection and the backend as they were.
C6_SubHourNoOp ==
    /\ [][(pc = "take" /\ time_now < NewestTime(subvolume.snapshots) + OneHour) =>
            /\ pc' = "prune"
            /\ main_config' = main_config
            /\ disk' = disk
            /\ calls' = calls]_vars
    /\ [][(pc = "prune" /\ ~Taken) =>
            /\ pc' \in {"take", "save"}
            /\ subvolume_after = subvolume
            /\ disk' = disk
            /\ calls' = calls]_vars

\* the subvolume as a pruning step leaves it
subvolume_left ==
    [subvolume EXCEPT !.snapshots = LeftBy]

\* C9: a pruning step that follows a pruning step, with no snapshot taken and
\* no keep-count changed in between, has nothing to delete: what the first
\* leaves holds no scheduled deletion.
C9_PruneIdempotent ==
    [][pc = "prune" => scheduled(subvolume_left) = <<>>]_vars

\* C10: when a scheduled deletion fails, the pruning step still issues the
\* delete command of every scheduled deletion and the rotation goes on, to the
\* next subvolume or to the save.  The first btrfs_delete_subvolume that is
\* run ends the process with a traceback.
C10_PruneGoesOn ==
    [][(pc = "prune" /\ failures' > failures) =>
         /\ pc' \in {"take", "save"}
         /\ exit_status' # "crash"
         /\ {scheduled(subvolume)[i].val.path : i \in DOMAIN scheduled(subvolume)}
                \subseteq NewDeleteCalls]_vars

----------------------------------------------------------------------------
(* C8: the table of subvolume configurations *)

\* no two entries of a table have one key, and every entry is filed under the
\* name it holds
UniqueNames(cfg) ==
    /\ \A i, j \in DOMAIN cfg.configs :
           cfg.configs[i].key = cfg.configs[j].key => i = j
    /\ \A i \in DOMAIN cfg.configs :
           cfg.configs[i].val.name = cfg.configs[i].key

\* C8: the table of configurations, in the process and in the settings file,
\* holds at most one subvolume per name after every step (it starts empty);
\* --create-config for a subvolume whose name is in the table exits with
\* status 1 and leaves the settings file, its backup and the backend as they
\* were, issuing no btrfs command.
C8_UniqueNames ==
    [][/\ UniqueNames(main_config')
       /\ UniqueNames(file'.content)
       /\ \A path \in InputPaths :
              (/\ pc = "idle"
               /\ btrfs_subvolume_exists(path, path)
               /\ Has(read_config_file(file).configs, basename(path))
               /\ \E d \in RegistryDeltas, keep \in KeepAnswers, ok \in BOOLEAN :
                      CreateConfig(d, path, keep, ok))
              => /\ exit_status' = "exit 1: already exists"
                 /\ file' = file
                 /\ bak' = bak
                 /\ disk' = disk
                 /\ calls' = <<>>]_vars

\* --create-config has just refused a name that was in the table, and the
\* table holds two names
C8_Witness ==
    /\ pc = "idle"
    /\ exit_status = "exit 1: already exists"
    /\ Len(file.content.configs) = 2
    /\ UniqueNames(file.content)

----------------------------------------------------------------------------
(* C7: Subvolume.delete_snapshot *)

\* C7: when the btrfs command of delete_snapshot fails for a snapshot the
\* subvolume holds, the snapshot stays in the collection, the tier counts stay
\* as they were, and the call does not return as if it had deleted.
C7_FailedDeleteKeeps ==
    [][\A snapshot \in Held :
         delete_snapshot(snapshot, FALSE)
             => /\ sv_snapshots' = sv_snapshots
                /\ sv_num' = sv_num
                /\ sv_result' # "returned"]_vars

----------------------------------------------------------------------------
(* C11, C12: Subvolume.delete_snapshot on what it cannot delete *)

\* the snapshot is one the object holds (Snapshot.__eq__)
IsMember(snapshot) ==
    \E i \in DOMAIN sv_snapshots : Snapshot_eq(sv_snapshots[i], snapshot)

\* C11: delete_snapshot of a snapshot the subvolume does not hold ends in an
\* error and changes nothing: the collection and the tier counts are as
\* before, and no btrfs delete command is printed or run.
C11_NotMemberNothing ==
    [][\A snapshot \in Loaded, ok \in BOOLEAN :
         (~IsMember(snapshot) /\ delete_snapshot(snapshot, ok))
             => /\ sv_result' # "returned"
                /\ sv_snapshots' = sv_snapshots
                /\ sv_num' = sv_num
                /\ sv_disk' = sv_disk
                /\ sv_cmd' = <<>>]_vars

\* C12: delete_snapshot of a held snapshot that is marked as not on disk ends
\* in an error: no btrfs delete command is printed or run and the snapshot
\* stays in the collection.
C12_NotPhysicalStays ==
    [][\A snapshot \in Held :
         (~snapshot.physical /\ delete_snapshot(snapshot, TRUE))
             => /\ sv_result' # "returned"
                /\ sv_cmd' = <<>>
                /\ sv_snapshots' = sv_snapshots]_vars

----------------------------------------------------------------------------
(* C13: Subvolume.take_snapshot of a subvolume that is not on disk *)

----------------------------------------------------------------------------
(* C14: the names of the snapshots of one Subvolume *)

\* no two entries of the collection have the same name
NamesUnique(snapshots) ==
    \A i, j \in DOMAIN snapshots :
        snapshots[i].name = snapshots[j].name => i = j

\* C14: a take_snapshot on a collection without two equal names leaves one
\* without two equal names: when the name made from the time of the call is
\* the name of a snapshot already held, no second entry of that name is added.
C14_TakeKeepsNamesUnique ==
    [][\A type_ \in ObjectTypes, d \in {0, OneHour}, ok \in BOOLEAN :
         (NamesUnique(sv_snapshots) /\ take_snapshot(type_, d, ok))
             => NamesUnique(sv_snapshots')]_vars

----------------------------------------------------------------------------
(* C15: the tiers in a pruning step *)

\* the orders the five tiers can be gone through in
TierOrders ==
    {order \in [1..5 -> Tiers] : \A i, j \in 1..5 : order[i] = order[j] => i = j}

\* the deletions of all types when the types are gone through in an order
RECURSIVE ScheduledIn(_, _, _)
ScheduledIn(sv, order, i) ==
    IF i = 0 THEN <<>>
    ELSE ScheduledIn(sv, order, i - 1) \o to_delete(sv, order[i])

\* the paths of the deletions whose command a pruning step runs, of a list of
\* scheduled deletions: all of them, or the first when that one ends the process
IssuedOf(dels) ==
    IF btrfs_delete_subvolume_raises /\ dels # <<>>
    THEN {dels[1].val.path}
    ELSE {dels[i].val.path : i \in DOMAIN dels}

\* a subvolume with the snapshots of one type only
OnlyTier(sv, type) ==
    [sv EXCEPT !.snapshots = SelectSeq(@, LAMBDA e : e.val.type = type)]

\* C15: in a pruning step the snapshots of a tier for which a delete command
\* is run are those for which one would be run if the subvolume held that
\* tier's snapshots only; and going through the tiers in any other order
\* would run the same commands and leave the same collection.
C15_TiersIndependent ==
    [][pc = "prune" =>
         /\ \A t \in Tiers :
                NewDeleteCalls \cap {s.path : s \in Members(subvolume.snapshots, t)}
                    = IssuedOf(to_delete(OnlyTier(subvolume, t), t))
         /\ \A order \in TierOrders :
                LET dels == ScheduledIn(subvolume, order, 5)
                IN  /\ NewDeleteCalls = IssuedOf(dels)
                    /\ pc' # "idle" =>
                           subvolume_after.snapshots
                               = DelAll(subvolume.snapshots, dels, Len(dels))]_vars

----------------------------------------------------------------------------
(* C16: the init snapshot *)

\* the number of init snapshots of every subvolume of a table is one
OneInitEach(cfg) ==
    \A i \in DOMAIN cfg.configs :
        Cardinality({j \in DOMAIN cfg.configs[i].val.snapshots :
                        cfg.configs[i].val.snapshots[j].val.type = "init"}) = 1

\* C16: a --create-config run that registers a subvolume and whose snapshot
\* command succeeds leaves the config file with the subvolume in it, holding
\* exactly one snapshot, of type init, at the path the command was given; the
\* take step of a rotation pass never adds a snapshot of type init, so every
\* subvolume of the table and of the file keeps exactly one.
C16_OneInit ==
    /\ [][\A d \in Deltas, path \in SameNamePaths, keep \in KeepAnswers :
            (/\ read_config_file(file).nonempty
             /\ btrfs_subvolume_exists(path, path)
             /\ ~Has(read_config_file(file).configs, basename(path))
             /\ CreateConfig(d, path, keep, TRUE))
                => /\ exit_status' = "ok"
                   /\ Has(file'.content.configs, basename(path))
                   /\ LET sv == Get(file'.content.configs, basename(path))
                      IN  /\ sv.path = path
                          /\ Len(sv.snapshots) = 1
                          /\ sv.snapshots[1].val.type = "init"
                          /\ calls' = <<Call("snapshot", sv.snapshots[1].val.path)>>
                          /\ ~testing => sv.snapshots[1].val.path \in disk']_vars
    /\ [][pc = "take" =>
            \A j \in DOMAIN subvolume_after.snapshots :
                subvolume_after.snapshots[j].val.type = "init"
                    => Has(subvolume.snapshots, subvolume_after.snapshots[j].key)]_vars
    /\ [][OneInitEach(main_config') /\ OneInitEach(file'.content)]_vars

\* a subvolume was registered with its init snapshot and a later pass has
\* taken and saved a second snapshot
C16_Witness ==
    /\ pc = "idle"
    /\ exit_status = "ok"
    /\ \E i \in DOMAIN file.content.configs :
           LET snapshots == file.content.configs[i].val.snapshots
           IN  /\ Len(snapshots) = 2
               /\ snapshots[1].val.type = "init"
               /\ snapshots[2].val.type # "init"

----------------------------------------------------------------------------
(* C17: the config file from one run to the next *)

\* the paths of the snapshots a table holds
SnapshotPaths(cfg) ==
    UNION {{cfg.configs[i].val.snapshots[j].val.path :
               j \in DOMAIN cfg.configs[i].val.snapshots} : i \in DOMAIN cfg.configs}

\* every collection of a table is in ascending order of creation time
Chronological(cfg) ==
    \A i \in DOMAIN cfg.configs :
        LET snapshots == cfg.configs[i].val.snapshots
        IN  \A j, k \in DOMAIN snapshots :
                j < k => fromisoformat(snapshots[j].val.creation_date_time)
                             < fromisoformat(snapshots[k].val.creation_date_time)

\* C17: what the next run loads from the config file a rotation pass leaves is
\* the table the pass ended with: the same subvolumes with the same snapshots,
\* names, paths, types and creation times, in order of creation time; every
\* snapshot the pass took and did not delete is in it, and no snapshot the
\* pass deleted is.
C17_NextRunLoadsTheRun ==
    [][(pc \in {"take", "prune", "save"} /\ pc' = "idle") =>
         LET loaded == read_config_file(file')
         IN  /\ pc = "save" /\ file.exists => loaded = main_config
             /\ Chronological(loaded)
             /\ \A i \in DOMAIN calls' :
                    IF Call("delete", calls'[i].path) \in {calls'[j] : j \in DOMAIN calls'}
                    THEN calls'[i].path \notin SnapshotPaths(loaded)
                    ELSE calls'[i].path \in SnapshotPaths(loaded)]_vars

----------------------------------------------------------------------------
(* C18: a snapshot command that fails in a rotation pass *)

\* C18: when the btrfs snapshot command of the take step fails, the pass is
\* over for that subvolume and for no other: no snapshot is recorded for it,
\* the process goes on, the entries of the other subvolumes are as they were
\* and the subvolumes still to come are still to come.
C18_FailedTakeEndsOne ==
    [][(pc = "take" /\ failures' > failures) =>
         /\ subvolume_after = subvolume
         /\ pc' # "idle"
         /\ Tail(todo') = Tail(todo) \/ todo' = Tail(todo)
         /\ \A i \in DOMAIN main_config.configs :
                main_config.configs[i].key # Head(todo)
                    => Get(main_config'.configs, main_config.configs[i].key)
                           = main_config.configs[i].val]_vars

----------------------------------------------------------------------------
(* C19: one instance at a time *)

\* a process is inside a rotation pass
InPass(at) ==
    at \in {"take", "prune", "save"}

\* C19: the processes of the two instances are never inside a rotation pass
\* together; a step of an instance that is started while the other holds the
\* lock leaves it outside the pass, runs no btrfs command and leaves the
\* backend, the config file and its backup as they were.
C19_OneInstance ==
    [][/\ ~(InPass(pc') /\ InPass(other_instance'.pc))
       /\ (pc = "idle" /\ lock \notin {0, cur} /\ cur' = cur)
              => /\ pc' = "idle"
                 /\ exit_status' = "exit: multiple instances"
                 /\ calls' = calls
                 /\ disk' = disk
                 /\ file' = file
                 /\ bak' = bak]_vars

\* an instance was turned away while the other is inside a pass that has
\* taken a snapshot
C19_Witness ==
    /\ pc = "idle"
    /\ exit_status = "exit: multiple instances"
    /\ lock = 3 - cur
    /\ other_instance.pc = "prune"
    /\ other_instance.calls # <<>>

----------------------------------------------------------------------------
(* C20: Subvolume.newest_snapshot and Subvolume.oldest_snapshot *)

\* the snapshots of the collection a type_ argument asks about
Asked(type_) ==
    {s \in Held : type_ = "None" \/ s.type_ = type_}

\* how many times a collection holds a snapshot
Times(snapshots, s) ==
    Cardinality({i \in DOMAIN snapshots : snapshots[i] = s})

\* C20: newest_snapshot(type_) returns a snapshot of the collection, of the
\* type asked for when one is given, whose creation time no other such
\* snapshot exceeds, and oldest_snapshot(type_) one whose creation time is
\* below or equal to that of every other, in whatever order the snapshots
\* were appended; when there is no such snapshot the call ends in IndexError;
\* either way the collection holds the same snapshots after the call.
C20_NewestOldest ==
    [][\A type_ \in QueryTypes, last \in BOOLEAN :
         pick_snapshot(type_, last) =>
             /\ \A s \in Held \cup {sv_snapshots'[i] : i \in DOMAIN sv_snapshots'} :
                    Times(sv_snapshots', s) = Times(sv_snapshots, s)
             /\ IF Asked(type_) = {}
                THEN sv_result' = "IndexError" /\ sv_returned' = <<>>
                ELSE /\ sv_result' = "returned"
                     /\ Len(sv_returned') = 1
                     /\ sv_returned'[1] \in Asked(type_)
                     /\ \A s \in Asked(type_) :
                            IF last
                            THEN s.creation_date_time <= sv_returned'[1].creation_date_time
                            ELSE s.creation_date_time >= sv_returned'[1].creation_date_time]_vars

\* a collection that holds two snapshots of different creation times of one
\* type, and a snapshot of another type, was asked for its newest or oldest
\* snapshot and returned one of the former
C20_Witness ==
    /\ sv_result = "returned"
    /\ sv_cmd = <<>>
    /\ Len(sv_returned) = 1
    /\ Len(sv_snapshots) >= 2
    /\ \E s \in Held : s.type_ # sv_returned[1].type_
    /\ \E s \in Held :
           /\ s.type_ = sv_returned[1].type_
           /\ s.creation_date_time # sv_returned[1].creation_date_time

----------------------------------------------------------------------------
(* C21: the classification is total *)

\* C21: for every pair of timestamps at least one hour apart the chain writes
\* one type, which is one of hourly, daily, weekly, monthly, yearly, and it is
\* the type the chain gives for that pair whenever it is run on it.
C21_OneTier ==
    type_out # "none" =>
        /\ type_out \in Tiers
        /\ Cardinality({t \in Tiers : t = snapshot_type(now_in, prev_in)}) = 1
        /\ type_out = snapshot_type(now_in, prev_in)

\* a pair has been classified yearly, the last test of the chain before the else
C21_Witness ==
    /\ now_in >= prev_in + OneHour
    /\ type_out = "yearly"

----------------------------------------------------------------------------
(* C22: one snapshot per calendar boundary *)

\* two timestamps are of one calendar day
SameDay(t, u) ==
    year(t) = year(u) /\ month(t) = month(u) /\ day(t) = day(u)

\* C22: the take step never writes monthly when the newest snapshot of the
\* collection is of day 1 of a month, and the snapshot it takes is not the
\* second in a row to get the same tier on one day: not monthly, yearly or
\* weekly when the last snapshot a pass took of the subvolume got that tier on
\* the same day, and not daily when that one was daily in the same hour 0.
C22_FirstCrossingOnly ==
    [][(pc = "take" /\ TakeDue(time_now, subvolume.snapshots)) =>
         LET new == NewSnapshot(subvolume, time_now)
         IN  /\ new.type = "monthly"
                    => day(newest_snapshot_time(subvolume.snapshots)) # 1
             /\ Has(last_taken, Head(todo)) =>
                    LET last == Get(last_taken, Head(todo))
                        at == fromisoformat(last.creation_date_time)
                    IN  /\ (new.type = last.type
                            /\ new.type \in {"monthly", "yearly", "weekly"})
                               => ~SameDay(time_now, at)
                        /\ (new.type = last.type /\ new.type = "daily")
                               => ~(SameDay(time_now, at) /\ hour(at) = hour(time_now))]_vars

----------------------------------------------------------------------------
(* C23: Subvolume.num_snapshots *)

\* how many snapshots of a type a collection holds
NumberOf(snapshots, type_) ==
    Cardinality({i \in DOMAIN snapshots : snapshots[i].type_ = type_})

\* C23: a take_snapshot, append_snapshot or delete_snapshot does not end in a
\* KeyError, and after it, for every tier and for every type of which the
\* collection holds a snapshot, init included, the object's count of that type
\* equals the number of snapshots of that type in the collection.
C23_CountsMatch ==
    [][/\ sv_result' # "KeyError"
       /\ \A type_ \in ObjectTypes :
              (type_ \in Tiers \/ NumberOf(sv_snapshots', type_) > 0)
                  => /\ type_ \in DOMAIN sv_num'
                     /\ sv_num'[type_] = NumberOf(sv_snapshots', type_)]_vars

----------------------------------------------------------------------------
(* C24: the order of Subvolume._snapshots *)

\* C24: after every call on the object the collection is in ascending order
\* of creation time: no snapshot stands before one that was created earlier,
\* so the index list_snapshots prints is the chronological one.
C24_CollectionAscending ==
    \A i, j \in DOMAIN sv_snapshots :
        i < j => ~Snapshot_lt(sv_snapshots[j], sv_snapshots[i])

----------------------------------------------------------------------------
(* C25: the order of the phases of a pass *)

\* the entry of the snapshot this pass takes of the subvolume the loop is at
NewEntry ==
    Get(subvolume.snapshots, new_name)

\* C25: for each subvolume the phases come in the order take, classify,
\* append, prune: when the backend snapshot call is about to be made the
\* collection holds no entry for the new snapshot, when pruning starts a new
\* snapshot in the collection has its tier, and the settings file is written
\* by a pass only when no subvolume is left to process.
C25_PhaseOrder ==
    [][/\ pc' = "snapshot" => ~Has(subvolume'.snapshots, new_name')
       /\ (pc' = "prune" /\ Has(subvolume'.snapshots, new_name'))
              => "type" \in DOMAIN NewEntry'
       /\ (pc # "idle" /\ file' # file) => todo = <<>>]_vars

----------------------------------------------------------------------------
(* C26: --delete-config with and without --delete-snapshots *)

\* the position of a command in the commands of the run, 0 when it is not there
PositionIn(cs, c) ==
    IF \E i \in DOMAIN cs : cs[i] = c
    THEN CHOOSE i \in DOMAIN cs : cs[i] = c
    ELSE 0

\* C26: deleting a registered subvolume with the cascade option issues a
\* delete for every snapshot of it that is on the backend, each before the
\* delete of the snapshot directory, and takes the subvolume out of the
\* settings file, after which the backend holds none of its snapshots;
\* without the option the subvolume is taken out of the file and no backend
\* command is issued.
C26_DeleteSubvolume ==
    [][\A d \in RegistryDeltas, config_name \in ConfigNames, delete_snapshots \in BOOLEAN :
           (/\ DeleteConfig(d, config_name, delete_snapshots)
            /\ file.exists
            /\ Has(file.content.configs, config_name))
           => LET sub == Get(file.content.configs, config_name)
                  dir == Call("delete", snapshot_subvol_path(sub.path))
              IN  /\ ~Has(file'.content.configs, config_name)
                  /\ delete_snapshots =>
                         /\ PositionIn(calls', dir) > 0
                         /\ \A i \in DOMAIN sub.snapshots :
                                LET path == sub.snapshots[i].val.path
                                    del == Call("delete", path)
                                IN  /\ btrfs_subvolume_exists(path, sub.path)
                                           => /\ PositionIn(calls', del) > 0
                                              /\ PositionIn(calls', del) < PositionIn(calls', dir)
                                    /\ path \notin disk'
                  /\ ~delete_snapshots => calls' = <<>>]_vars

----------------------------------------------------------------------------
(* C27: the prompts of --delete-snapshot *)

\* C27: when a listed index is typed and confirmed with Y the snapshot listed
\* under it is gone from the collection and, if it was on the backend, a
\* delete command was issued for it; the confirmation prompt is reached only
\* for an index in 0..len-1; N or an empty input changes nothing.
C27_PromptDeletes ==
    [][\A tmp \in NumberInputs, answer \in Answers :
           delete_snapshot_prompt(tmp, answer)
           => /\ (/\ tmp.kind = "int"
                  /\ tmp.value \in 0..(Len(sv_snapshots) - 1)
                  /\ upper(answer) = "Y")
                     => LET listed == sv_snapshots[tmp.value + 1]
                        IN  /\ sv_snapshots' = remove(sv_snapshots, listed)
                            /\ listed.physical
                                   => sv_cmd' = <<Call("delete", listed.path)>>
              /\ sv_returned' # <<>> => tmp.value \in 0..(Len(sv_snapshots) - 1)
              /\ (tmp.kind = "empty" \/ upper(answer) = "N")
                     => /\ sv_snapshots' = sv_snapshots
                        /\ sv_disk' = sv_disk
                        /\ sv_cmd' = <<>>]_vars

----------------------------------------------------------------------------
(* C28: --create-config when there is no configuration yet *)

\* C28: when the settings file is missing or empty, a run of --create-config
\* on a btrfs subvolume leaves a non-empty settings file in which the
\* subvolume is registered with an init snapshot.
C28_FirstSubvolumeRegistered ==
    [][\A d \in Deltas, path \in SameNamePaths, keep \in KeepAnswers, ok \in BOOLEAN :
           (/\ CreateConfig(d, path, keep, ok)
            /\ ~read_config_file(file).nonempty
            /\ btrfs_subvolume_exists(path, path))
           => /\ file'.exists
              /\ file'.content.nonempty
              /\ Has(file'.content.configs, basename(path))
              /\ LET snapshots == Get(file'.content.configs, basename(path)).snapshots
                 IN  \E i \in DOMAIN snapshots : snapshots[i].val.type = "init"]_vars

----------------------------------------------------------------------------
(* C29: the snapshot a pass takes is there when the pass ends *)

\* the commands of a kind issued for a path
CommandsFor(cs, cmd, path) ==
    {i \in DOMAIN cs : cs[i] = Call(cmd, path)}

\* a snapshot is on the backend: the backend holds it, or, when the commands
\* are only printed, no delete was printed for it
OnBackend(d, cs, path) ==
    IF testing THEN CommandsFor(cs, "delete", path) = {}
    ELSE path \in d

\* C29: when a pass ends and has taken a snapshot of a tier whose keep-count
\* is at least 1, the settings file it leaves holds the snapshot in the
\* subvolume's collection, the snapshot is on the backend, and its creation
\* time is greater than that of every other snapshot of the collection.
C29_NewSnapshotStays ==
    [][(pc # "idle" /\ pc' = "idle")
       => \A i \in DOMAIN last_taken :
              LET name == last_taken[i].key
                  new == last_taken[i].val
              IN  (/\ CommandsFor(calls, "snapshot", new.path) # {}
                   /\ Has(main_config.configs, name)
                   /\ Get(main_config.configs, name).options[new.type] >= 1)
                  => /\ Has(file'.content.configs, name)
                     /\ LET snapshots == Get(file'.content.configs, name).snapshots
                        IN  /\ Has(snapshots, new.name)
                            /\ \A j \in DOMAIN snapshots :
                                   snapshots[j].key # new.name
                                       => fromisoformat(snapshots[j].val.creation_date_time)
                                              < fromisoformat(new.creation_date_time)
                     /\ OnBackend(disk', calls', new.path)]_vars

----------------------------------------------------------------------------
(* C30: the backup before the overwrite *)

\* C30: a save that finds the main config file changes it only when the copy
\* to .bak was made, and then .bak holds what the file held; when the copy
\* fails the script exits with status 1 and the file is as it was.
C30_BackupBeforeOverwrite ==
    [][\A copy_ok, open_ok \in BOOLEAN :
           (save_config(copy_ok, open_ok) /\ file.exists)
           => /\ file' # file => (copy_ok /\ bak' = file)
              /\ ~copy_ok => /\ exit_status' = "exit 1: failed to backup"
                             /\ file' = file]_vars

\* a pass that had taken a snapshot ended at a failed backup, and the file
\* still holds the table without the snapshot
C30_Witness ==
    /\ pc = "idle"
    /\ exit_status = "exit 1: failed to backup"
    /\ file.exists
    /\ \E i \in DOMAIN last_taken :
           /\ Has(file.content.configs, last_taken[i].key)
           /\ ~Has(Get(file.content.configs, last_taken[i].key).snapshots,
                   last_taken[i].val.name)

====
